---- MODULE Spec2Model ----
(***************************************************************************)
(* Model of the test orchestration engine of mcp-web-autotest              *)
(* (autotest/src/server.ts): the process-wide browser state, the           *)
(* browser_open / browser_close handlers, a representative page action     *)
(* (page_click), the tab handlers (page_new, page_switch, page_close),     *)
(* test_plan_run and test_suite_run.                                       *)
(*                                                                         *)
(* One server call runs at a time.  Every await on the browser driver is   *)
(* a point where the driver may succeed or fail; the model draws that      *)
(* outcome nondeterministically.  An action on the page under test         *)
(* (page_click) may fail every time it is run; the driver itself (launch,  *)
(* close, tracing, screenshot) fails at most once in a behaviour.  The     *)
(* tracing calls are opaque: whether a trace is running is the driver's    *)
(* state and is not modelled.                                              *)
(*                                                                         *)
(* Specifications: PlanSpec (one test_plan_run call), Spec (one            *)
(* test_suite_run call), OrderSpec (one call of either kind), CleanupSpec  *)
(* (Spec with cleanup operations that may fail again and again), LoopSpec  *)
(* (the retry loop of one test, every driver call free to fail),           *)
(* ReportSpec (buildJUnit applied to result logs), ConcSpec                *)
(* (test_suite_run calls interleaved at their awaits) and TabSpec (tab     *)
(* calls one after the other).                                             *)
(***************************************************************************)
EXTENDS Integers, Sequences, FiniteSets, TLC

VARIABLES
    state,          \* server.ts:22 the process-wide BrowserContextState
    pageIdCounter,  \* server.ts:29
    pageObjCounter, \* number of Page objects created so far (object identity)
    pc,             \* position of the running call
    input,          \* the argument of the running call
    planResults,    \* test_plan_run: results
    results,        \* test_suite_run: results
    i,              \* loop index of runSteps / of the plan loop
    testIdx,        \* test_suite_run: position of the for..of loop over tests
    attempt,        \* test_suite_run: attempt
    ok,             \* test_suite_run: ok
    lastErr,        \* test_suite_run: lastErr (its message)
    testArtifacts,  \* test_suite_run: testArtifacts
    autoAcquired,   \* history: the running suite call opened the browser itself
    faulted,        \* history: a call of the driver has been made to fail
    hist,           \* history: what the running call has executed so far
    heldAtEntry,    \* history: a browser was held when the running suite call began
    shared,         \* interleaved calls: server.ts:22 state, with object identities
    runs,           \* interleaved calls: the locals and the position of each call
    tabs,           \* tab calls, history: the pages opened and not closed since
    last            \* tab calls, history: the last call, the state it found, its result

vars == <<state, pageIdCounter, pageObjCounter, pc, input, planResults, results,
          i, testIdx, attempt, ok, lastErr, testArtifacts, autoAcquired, faulted, hist,
          heldAtEntry, shared, runs, tabs, last>>

\* The variables of the interleaved calls.
concVars == <<shared, runs>>

\* The history variables of the tab calls.
tabVars == <<tabs, last>>

----------------------------------------------------------------------------
(* Bounds of the model *)

MaxPlanSteps == 3
MaxSuiteSteps == 2
MaxTests == 2
MaxRetries == 1
MaxCalls == 2
MaxCallSteps == 1
MaxLogTests == 2
MaxLogSteps == 1
MaxPages == 3
MaxLoopRetries == 2
MaxLoopSteps == 1

----------------------------------------------------------------------------
(* Values *)

Null == "null"

\* The messages of the errors the code can observe.
MsgUnknownTool == "unknown tool"        \* server.ts:452, 529
MsgBadArgs == "invalid arguments"       \* ZodError of inputSchema.parse
MsgNoBrowser == "open the browser first" \* server.ts:580
MsgActionFailed == "action failed"      \* a rejected Playwright call
MsgLaunchFailed == "launch failed"      \* chromium.launch rejected
MsgCloseFailed == "close failed"        \* browser.close rejected
MsgTraceFailed == "tracing failed"      \* tracing.start / tracing.stop rejected
MsgNoSchema == "cannot read properties of undefined" \* TypeError of x.inputSchema.parse
MsgUnknownPage == "unknown pageId"      \* server.ts:264, 277
MsgNoPageId == "no pageId to close"     \* server.ts:273

\* The registry: the tools a step can name that this model gives a handler.
\* page_click stands for every action that is ensurePage() followed by one
\* driver call.
Tools == {"browser_open", "browser_close", "page_click"}

\* tools and handlers are object literals, and tools[name], handlers[name]
\* find the properties every object inherits as well: such a name passes
\* both lookups although the registry defines no tool of that name.
InheritedNames == {"toString"}

\* server.ts:22  page: the identity of the Page object (0 = null); pages:
\* the entries of the Map in insertion order; currentPageId: a string or Null.
EmptyState == [browser |-> FALSE, page |-> 0, pages |-> <<>>, currentPageId |-> Null]

\* server.ts:30  `page${pageIdCounter++}`
nextPageId(idc) == "page" \o ToString(idc)

\* A step of a plan or suite: the tool it names and whether its arguments
\* pass the tool's schema.
Step(n, a) == [name |-> n, argsOk |-> a]

PlanStepValues ==
    {Step("no_such_tool", TRUE), Step("page_click", TRUE), Step("page_click", FALSE),
     Step("browser_open", TRUE), Step("browser_close", TRUE), Step("toString", TRUE)}

SuiteStepValues ==
    {Step("no_such_tool", TRUE), Step("page_click", TRUE), Step("browser_close", TRUE)}

SeqsUpTo(S, n) == UNION {[1..k -> S] : k \in 0..n}

----------------------------------------------------------------------------
(* The browser handlers, as the set of results a call can have: the new    *)
(* state and whether the call resolved or rejected.                        *)

\* fault marks a rejection of the driver itself (launch, close, tracing,
\* screenshot), as opposed to an action that fails on the page under test.
Res(o, m, st, idc, objc) ==
    [ok |-> o, message |-> m, state |-> st, idc |-> idc, objc |-> objc, fault |-> FALSE]

Fault(m, st, idc, objc) ==
    [ok |-> FALSE, message |-> m, state |-> st, idc |-> idc, objc |-> objc, fault |-> TRUE]

\* server.ts:578
ensurePage(st) == st.browser /\ st.page # 0

\* server.ts:206
browser_open(st, idc, objc) ==
    LET opened == [browser |-> TRUE, page |-> objc + 1,
                   pages |-> <<[id |-> nextPageId(idc), obj |-> objc + 1]>>,
                   currentPageId |-> nextPageId(idc)]
    IN  {Res(TRUE, "ok", opened, idc + 1, objc + 1),
         Fault(MsgLaunchFailed, st, idc, objc)}
        \cup (IF st.browser THEN {Fault(MsgCloseFailed, st, idc, objc)} ELSE {})

\* server.ts:231
browser_close(st, idc, objc) ==
    IF st.browser
    THEN {Res(TRUE, "ok", EmptyState, idc, objc),
          Fault(MsgCloseFailed, st, idc, objc)}
    ELSE {Res(TRUE, "ok", st, idc, objc)}

\* server.ts:246
page_click(st, idc, objc) ==
    IF ensurePage(st)
    THEN {Res(TRUE, "ok", st, idc, objc), Res(FALSE, MsgActionFailed, st, idc, objc)}
    ELSE {Res(FALSE, MsgNoBrowser, st, idc, objc)}

\* !v of a value that is a string or null
Falsy(v) == v \in {Null, ""}

\* Map.get (0 = undefined), Map.set (the entry of a key that is there keeps
\* its place) and Map.delete on the entries of state.pages.
MapGet(pages, id) ==
    IF \E j \in 1..Len(pages) : pages[j].id = id
    THEN pages[CHOOSE j \in 1..Len(pages) : pages[j].id = id].obj
    ELSE 0

MapSet(pages, id, obj) ==
    IF \E j \in 1..Len(pages) : pages[j].id = id
    THEN [j \in 1..Len(pages) |-> IF pages[j].id = id THEN [id |-> id, obj |-> obj]
                                  ELSE pages[j]]
    ELSE Append(pages, [id |-> id, obj |-> obj])

MapDelete(pages, id) == SelectSeq(pages, LAMBDA e : e.id # id)

\* server.ts:251  id: input.id, Null when absent
page_new(st, idc, objc, id) ==
    IF ~ensurePage(st)
    THEN {Res(FALSE, MsgNoBrowser, st, idc, objc)}
    ELSE LET newId == IF id = Null THEN nextPageId(idc) ELSE id
         IN  {Res(TRUE, "ok",
                  [st EXCEPT !.pages = MapSet(@, newId, objc + 1), !.page = objc + 1,
                             !.currentPageId = newId],
                  IF id = Null THEN idc + 1 ELSE idc, objc + 1),
              Fault(MsgActionFailed, st, idc, objc)}

\* server.ts:261  id: input.id, a string
page_switch(st, idc, objc, id) ==
    IF MapGet(st.pages, id) = 0
    THEN {Res(FALSE, MsgUnknownPage, st, idc, objc)}
    ELSE {Res(TRUE, "ok",
              [st EXCEPT !.page = MapGet(st.pages, id), !.currentPageId = id],
              idc, objc)}

\* server.ts:270  id: input.id, Null when absent
page_close(st, idc, objc, id) ==
    LET cid == IF id = Null THEN st.currentPageId ELSE id
        rest == MapDelete(st.pages, cid)
        next == IF rest = <<>> THEN Null ELSE rest[1].id
    IN  IF Falsy(cid)
        THEN {Res(FALSE, MsgNoPageId, st, idc, objc)}
        ELSE IF MapGet(st.pages, cid) = 0
        THEN {Res(FALSE, MsgUnknownPage, st, idc, objc)}
        ELSE {Fault(MsgCloseFailed, st, idc, objc),
              Res(TRUE, "ok",
                  IF st.currentPageId = cid
                  THEN [st EXCEPT !.pages = rest, !.currentPageId = next,
                                  !.page = IF Falsy(next) THEN 0 ELSE MapGet(rest, next)]
                  ELSE [st EXCEPT !.pages = rest],
                  idc, objc)}

\* handlers[name](args)
Handler(name, st, idc, objc) ==
    CASE name = "browser_open" -> browser_open(st, idc, objc)
      [] name = "browser_close" -> browser_close(st, idc, objc)
      [] name = "page_click" -> page_click(st, idc, objc)

\* One step as both runners execute it: look the tool up, parse the
\* arguments, call the handler.  inv tells whether the handler was invoked.
\* What the lookup finds for an inherited name has no inputSchema: reading
\* its parse throws inside the try.
StepOutcomes(step, st, idc, objc) ==
    IF step.name \in InheritedNames
    THEN {[inv |-> FALSE, r |-> Res(FALSE, MsgNoSchema, st, idc, objc)]}
    ELSE IF step.name \notin Tools
    THEN {[inv |-> FALSE, r |-> Res(FALSE, MsgUnknownTool, st, idc, objc)]}
    ELSE IF ~step.argsOk
    THEN {[inv |-> FALSE, r |-> Res(FALSE, MsgBadArgs, st, idc, objc)]}
    ELSE {[inv |-> TRUE, r |-> r] : r \in Handler(step.name, st, idc, objc)}

----------------------------------------------------------------------------
(* Inputs of the calls *)

NoInput ==
    [kind |-> "none", steps |-> <<>>, continueOnError |-> FALSE, setup |-> <<>>,
     tests |-> <<>>, teardown |-> <<>>, retries |-> 0, autoBrowser |-> FALSE,
     onFailureScreenshot |-> FALSE, traceOnFailure |-> FALSE, junit |-> FALSE]

\* server.ts:169 the inputs of test_plan_run (continueOnError absent = false)
PlanInputs ==
    {[NoInput EXCEPT !.kind = "plan", !.steps = s, !.continueOnError = c] :
        s \in SeqsUpTo(PlanStepValues, MaxPlanSteps), c \in BOOLEAN}

\* Test names, as sequences of characters.
TestNames == << <<"L", "o", "g", "i", "n">>, <<"a", " ", "/", "b">>, <<"c", ".", "d">> >>

TestName(t) == TestNames[((t - 1) % Len(TestNames)) + 1]

RECURSIVE SumTo(_, _)
\* lens[1] + ... + lens[n]
SumTo(lens, n) == IF n = 0 THEN 0 ELSE lens[n] + SumTo(lens, n - 1)

\* The shapes of the suites of the model: the lengths of setup, of teardown
\* and of the steps of each test, MaxSuiteSteps steps in all at most.
SuiteShapes ==
    UNION {{lens \in [1..(n + 2) -> 0..MaxSuiteSteps] : SumTo(lens, n + 2) <= MaxSuiteSteps} :
              n \in 0..MaxTests}

\* The part-th list of a suite of that shape, cut from the steps in a row.
Part(lens, flat, part) ==
    SubSeq(flat, SumTo(lens, part - 1) + 1, SumTo(lens, part))

\* server.ts:187 an input of test_suite_run (absent booleans = false,
\* retries absent = 0, autoBrowser absent = true is the value TRUE here).
\* Test t is named TestName(t).  junit is drawn where the call reads it.
SuiteInput(lens, flat, c, r, ab, sh, tr) ==
    [kind |-> "suite", steps |-> <<>>, continueOnError |-> c,
     setup |-> Part(lens, flat, 1),
     tests |-> [t \in 1..(Len(lens) - 2) |->
                  [name |-> TestName(t), steps |-> Part(lens, flat, t + 2)]],
     teardown |-> Part(lens, flat, 2),
     retries |-> r, autoBrowser |-> ab, onFailureScreenshot |-> sh,
     traceOnFailure |-> tr, junit |-> FALSE]

\* server.ts:22-27 with the identity of the Browser and of the Page object
\* (0 = null): what two interleaved calls can tell apart.  closed holds the
\* Browser objects on which close() has been called.
NoBrowser == [browser |-> 0, page |-> 0, closed |-> {}]

\* No tab call yet.
NoCall ==
    [op |-> "none", id |-> Null, before |-> EmptyState, ok |-> FALSE, message |-> Null]

\* server.ts:445  junit: null is the empty sequence, a rendered report r is <<r>>.
NoResults == [setup |-> <<>>, tests |-> <<>>, teardown |-> <<>>, junit |-> <<>>]

\* One executed step, for the history: phase, test (1-based, 0 outside the
\* tests), attempt (0-based, as the code counts), step (1-based), whether
\* the handler was invoked and whether the step succeeded.  The start of
\* an attempt is recorded too (phase "attempt": inv tells whether runSteps
\* was entered), and so is each capture of the catch block (phases
\* "screenshot" and "trace_export": inv tells whether a page was there).
Ev(ph, t, a, k, inv, o) == [ph |-> ph, t |-> t, a |-> a, k |-> k, inv |-> inv, ok |-> o]

Init ==
    /\ state = EmptyState
    /\ pageIdCounter = 1
    /\ pageObjCounter = 0
    /\ pc = "idle"
    /\ input = NoInput
    /\ planResults = <<>>
    /\ results = NoResults
    /\ i = 0
    /\ testIdx = 0
    /\ attempt = 0
    /\ ok = FALSE
    /\ lastErr = Null
    /\ testArtifacts = <<>>
    /\ autoAcquired = FALSE
    /\ faulted = FALSE
    /\ hist = <<>>
    /\ heldAtEntry = FALSE
    /\ shared = NoBrowser
    /\ runs = <<>>
    /\ tabs = {}
    /\ last = NoCall

brVars == <<state, pageIdCounter, pageObjCounter>>

\* The variables of the orchestration calls.
runVars ==
    <<pc, input, planResults, results, i, testIdx, attempt, ok, lastErr, testArtifacts,
      autoAcquired, hist, heldAtEntry>>

\* The driver itself fails at most once in a behaviour (actions on the page
\* under test fail as often as they like).
MayFault == ~faulted

\* The results of a handler call that the behaviour may still take.
Possible(rs) == {r \in rs : ~r.fault \/ MayFault}

\* The effect of a handler call with result r on the browser state.
Apply(r) ==
    /\ state' = r.state
    /\ pageIdCounter' = r.idc
    /\ pageObjCounter' = r.objc
    /\ faulted' = (faulted \/ r.fault)

----------------------------------------------------------------------------
(* A direct tool call before the plan or suite call of the behaviour: it   *)
(* lets that call begin with a browser already held.                       *)

\* server.ts:565 CallTool -> handlers.browser_open
CallBrowserOpen ==
    /\ pc = "idle"
    /\ ~state.browser
    /\ \E r \in Possible(browser_open(state, pageIdCounter, pageObjCounter)) : Apply(r)
    /\ UNCHANGED <<concVars, tabVars, heldAtEntry,
                   pc, input, planResults, results, i, testIdx, attempt, ok, lastErr,
                   testArtifacts, autoAcquired, hist>>

----------------------------------------------------------------------------
(* test_plan_run, server.ts:523-543 *)

\* Mutants of PlanBreaks: a loop that never breaks, a loop that breaks on
\* every failure.
PlanBreaksNever(stepOk, continueOnError) == FALSE

PlanBreaksOnAnyFailure(stepOk, continueOnError) == ~stepOk

\* server.ts:530, 539  if (!input.continueOnError) break;
PlanBreaks(stepOk, continueOnError) == ~stepOk /\ ~continueOnError

\* server.ts:529, 536, 538  the entry pushed for step k
\* Mutant of PlanEntry: entries numbered from 0.
PlanEntryFromZero(k, step, r) ==
    [step |-> k - 1, name |-> step.name, ok |-> r.ok, message |-> r.message]

\* server.ts:530, 536, 538  the entry pushed for step k (1-based)
PlanEntry(k, step, r) ==
    [step |-> k, name |-> step.name, ok |-> r.ok, message |-> r.message]

\* server.ts:523-525
PlanCall ==
    /\ pc = "idle"
    /\ \E in \in PlanInputs :
        /\ input' = in
        /\ pc' = IF Len(in.steps) = 0 THEN "returned" ELSE "plan_loop"
    /\ planResults' = <<>>
    /\ i' = 0
    /\ hist' = <<>>
    /\ UNCHANGED <<concVars, tabVars, heldAtEntry,
                   brVars, results, testIdx, attempt, ok, lastErr, testArtifacts,
                   autoAcquired, faulted>>

\* server.ts:525-542  one iteration of the loop; the return follows the
\* loop's end at once.
PlanStep ==
    /\ pc = "plan_loop"
    /\ i < Len(input.steps)
    /\ LET step == input.steps[i + 1] IN
       \E o \in StepOutcomes(step, state, pageIdCounter, pageObjCounter) :
        /\ o.r \in Possible({o.r})
        /\ Apply(o.r)
        /\ planResults' = Append(planResults, PlanEntry(i + 1, step, o.r))
        /\ hist' = Append(hist, Ev("plan", 0, 0, i + 1, o.inv, o.r.ok))
        /\ i' = i + 1
        /\ pc' = IF PlanBreaks(o.r.ok, input.continueOnError) \/ i + 1 = Len(input.steps)
                 THEN "returned" ELSE "plan_loop"
    /\ UNCHANGED <<concVars, tabVars, heldAtEntry,
                   input, results, testIdx, attempt, ok, lastErr, testArtifacts,
                   autoAcquired>>

----------------------------------------------------------------------------
(* test_suite_run, server.ts:444-522 *)

MaxFilenameLen == 100

FilenameChars ==
    {"a", "b", "c", "d", "e", "f", "g", "h", "i", "j", "k", "l", "m", "n", "o", "p",
     "q", "r", "s", "t", "u", "v", "w", "x", "y", "z",
     "A", "B", "C", "D", "E", "F", "G", "H", "I", "J", "K", "L", "M", "N", "O", "P",
     "Q", "R", "S", "T", "U", "V", "W", "X", "Y", "Z",
     "0", "1", "2", "3", "4", "5", "6", "7", "8", "9", "-", "_", "."}

RECURSIVE ReplaceRuns(_)
\* name.replace(/[^a-zA-Z0-9-_\.]+/g, "_")
ReplaceRuns(s) ==
    IF s = <<>> THEN <<>>
    ELSE IF Head(s) \in FilenameChars THEN <<Head(s)>> \o ReplaceRuns(Tail(s))
    ELSE IF Len(s) > 1 /\ s[2] \notin FilenameChars THEN ReplaceRuns(Tail(s))
    ELSE <<"_">> \o ReplaceRuns(Tail(s))

\* server.ts:597
sanitizeFilename(name) ==
    LET r == ReplaceRuns(name)
    IN  SubSeq(r, 1, IF Len(r) < MaxFilenameLen THEN Len(r) ELSE MaxFilenameLen)

\* server.ts:492, 500  the file of an artifact, below artifactsDir
ArtifactFile(name, att, suffix) ==
    [base |-> sanitizeFilename(name), attempt |-> att, suffix |-> suffix]

\* server.ts:462
shouldAutoBrowser == input.autoBrowser

\* Mutant of RunStepsThrows: a runSteps that swallows every failure.
RunStepsNeverThrows(stepOk, continueOnError) == FALSE

\* server.ts:458  if (!input.continueOnError) throw e;  (every phase)
RunStepsThrows(stepOk, continueOnError) == ~stepOk /\ ~continueOnError

\* server.ts:455, 457  the entry runSteps pushes for a step
StepEntry(step, r) ==
    IF r.ok THEN [name |-> step.name, ok |-> TRUE]
    ELSE [name |-> step.name, ok |-> FALSE, message |-> r.message]

\* server.ts:508  the entry pushed for a test
TestResult(test, testOk, err, artifacts) ==
    [name |-> test.name, ok |-> testOk, error |-> IF testOk THEN Null ELSE err,
     artifacts |-> artifacts]

IsTestResult(e) == "artifacts" \in DOMAIN e

\* The text of a message, as characters: that of a rejected Playwright call
\* quotes the element it was looking for.
MessageText(m) ==
    IF m = MsgActionFailed
    THEN <<"n", "o", " ", "<", "a", ">", " ", "&", " ", "\"", "b", "\"">>
    ELSE <<"e", "r", "r">>

RECURSIVE escapeXml(_)
\* server.ts:593  the five replacements, "&" first
escapeXml(s) ==
    IF s = <<>> THEN <<>>
    ELSE (CASE Head(s) = "&" -> <<"&", "a", "m", "p", ";">>
            [] Head(s) = "<" -> <<"&", "l", "t", ";">>
            [] Head(s) = ">" -> <<"&", "g", "t", ";">>
            [] Head(s) = "\"" -> <<"&", "q", "u", "o", "t", ";">>
            [] Head(s) = "'" -> <<"&", "a", "p", "o", "s", ";">>
            [] OTHER -> <<Head(s)>>) \o escapeXml(Tail(s))

\* server.ts:589  one testcase element.  The name of a TestResult is escaped
\* character by character; the name of a per-step entry is a tool's name.
\* t.error || "error": an entry without error gets the text "error".
TestCase(t) ==
    [name |-> IF IsTestResult(t) THEN escapeXml(t.name) ELSE t.name,
     failure |-> ~t.ok,
     message |-> IF t.ok THEN <<>>
                 ELSE IF "error" \in DOMAIN t /\ t.error # Null
                 THEN escapeXml(MessageText(t.error))
                 ELSE escapeXml(<<"e", "r", "r", "o", "r">>)]

\* Mutant of buildJUnit: a report that counts one more test when the
\* result already holds a report.
buildJUnitCountsReports(res) ==
    LET tests == SelectSeq(res.tests, LAMBDA t : t.ok \in BOOLEAN)
        failed == SelectSeq(tests, LAMBDA t : ~t.ok)
    IN  [tests |-> Len(tests) + Len(res.junit),
         failures |-> Len(failed),
         cases |-> [k \in 1..Len(tests) |-> TestCase(tests[k])]]

\* server.ts:585  the report: the two counts of the testsuite element and
\* its testcase elements in order
buildJUnit(res) ==
    LET tests == SelectSeq(res.tests, LAMBDA t : t.ok \in BOOLEAN)
        failed == SelectSeq(tests, LAMBDA t : ~t.ok)
    IN  [tests |-> Len(tests), failures |-> Len(failed),
         cases |-> [k \in 1..Len(tests) |-> TestCase(tests[k])]]

\* server.ts:511  where the call goes after the loop over the tests
AfterTests == IF Len(input.teardown) > 0 THEN "teardown" ELSE "finish"

\* server.ts:471  where the call goes after setup
AfterSetup == IF Len(input.tests) > 0 THEN "test_start" ELSE AfterTests

\* server.ts:505  if (attempt > (input.retries ?? 0)) break;
CatchBreaks(att, retries) == att > retries

\* Mutant of SuiteBreaks: a loop over the tests that never breaks.
SuiteBreaksNever(testOk, continueOnError) == FALSE

\* server.ts:509  if (!ok && !input.continueOnError) break;
SuiteBreaks(testOk, continueOnError) == ~testOk /\ ~continueOnError

\* server.ts:444-445
SuiteCall ==
    /\ pc = "idle"
    /\ \E lens \in SuiteShapes :
       \E flat \in [1..SumTo(lens, Len(lens)) -> SuiteStepValues] :
       \E c \in BOOLEAN, r \in 0..MaxRetries, ab \in BOOLEAN, sh \in BOOLEAN,
          tr \in BOOLEAN :
        input' = SuiteInput(lens, flat, c, r, ab, sh, tr)
    /\ pc' = "acquire"
    /\ results' = NoResults
    /\ planResults' = <<>>
    /\ i' = 0
    /\ testIdx' = 0
    /\ attempt' = 0
    /\ ok' = FALSE
    /\ lastErr' = Null
    /\ testArtifacts' = <<>>
    /\ autoAcquired' = FALSE
    /\ heldAtEntry' = state.browser
    /\ hist' = <<>>
    /\ UNCHANGED <<concVars, tabVars, brVars, faulted>>

\* server.ts:462-466
SuiteAcquire ==
    /\ pc = "acquire"
    /\ LET next == IF Len(input.setup) > 0 THEN "setup" ELSE AfterSetup IN
       IF shouldAutoBrowser /\ ~state.browser
       THEN \E r \in Possible(browser_open(state, pageIdCounter, pageObjCounter)) :
              /\ Apply(r)
              /\ autoAcquired' = r.ok
              /\ pc' = IF r.ok THEN next ELSE "thrown"
       ELSE /\ pc' = next
            /\ UNCHANGED <<brVars, autoAcquired, faulted>>
    /\ i' = 0
    /\ UNCHANGED <<concVars, tabVars, heldAtEntry,
                   input, planResults, results, testIdx, attempt, ok, lastErr,
                   testArtifacts, hist>>

\* server.ts:466 with 447-461: one iteration of runSteps(input.setup, "setup")
RunSetupStep ==
    /\ pc = "setup"
    /\ i < Len(input.setup)
    /\ LET step == input.setup[i + 1] IN
       \E o \in StepOutcomes(step, state, pageIdCounter, pageObjCounter) :
        /\ o.r \in Possible({o.r})
        /\ Apply(o.r)
        /\ results' = [results EXCEPT !.setup = Append(@, StepEntry(step, o.r))]
        /\ hist' = Append(hist, Ev("setup", 0, 0, i + 1, o.inv, o.r.ok))
        /\ i' = i + 1
        /\ pc' = IF RunStepsThrows(o.r.ok, input.continueOnError) THEN "thrown"
                 ELSE IF i + 1 = Len(input.setup) THEN AfterSetup
                 ELSE "setup"
    /\ UNCHANGED <<concVars, tabVars, heldAtEntry,
                   input, planResults, testIdx, attempt, ok, lastErr, testArtifacts,
                   autoAcquired>>

\* server.ts:471-473  the for..of loop takes the next test
TestStart ==
    /\ pc = "test_start"
    /\ testIdx' = testIdx + 1
    /\ attempt' = 0
    /\ ok' = FALSE
    /\ lastErr' = Null
    /\ testArtifacts' = <<>>
    /\ pc' = "attempt"
    /\ UNCHANGED <<concVars, tabVars, heldAtEntry,
                   brVars, input, planResults, results, i, autoAcquired, faulted, hist>>

\* Mutant of StepsReturned: no break after a successful attempt.
StepsReturnedNoBreak == "attempt"

\* server.ts:481-486  runSteps returned: ok = true, then the trace stop or break
StepsReturned == IF input.traceOnFailure THEN "trace_stop" ELSE "finalize"

\* server.ts:474-480  the while test and the start of an attempt
AttemptStart ==
    /\ pc = "attempt"
    /\ IF ~(attempt <= input.retries)
       THEN /\ pc' = "finalize"
            /\ UNCHANGED <<lastErr, attempt, ok, faulted, hist>>
       ELSE LET test == input.tests[testIdx]
                run ==
                    /\ hist' = Append(hist, Ev("attempt", testIdx, attempt, 0, TRUE, TRUE))
                    /\ ok' = (Len(test.steps) = 0 \/ ok)
                    /\ pc' = IF Len(test.steps) = 0 THEN StepsReturned ELSE "steps"
                    /\ UNCHANGED <<lastErr, attempt, faulted>>
                caught(msg, fault) ==
                    /\ hist' = Append(hist, Ev("attempt", testIdx, attempt, 0, FALSE, FALSE))
                    /\ lastErr' = msg
                    /\ attempt' = attempt + 1
                    /\ pc' = "capture"
                    /\ faulted' = (faulted \/ fault)
                    /\ UNCHANGED ok
            IN  IF ~input.traceOnFailure THEN run
                ELSE IF ~ensurePage(state) THEN caught(MsgNoBrowser, FALSE)
                ELSE run \/ (MayFault /\ caught(MsgTraceFailed, TRUE))
    /\ i' = 0
    /\ UNCHANGED <<concVars, tabVars, heldAtEntry,
                   brVars, input, planResults, results, testIdx, testArtifacts,
                   autoAcquired>>

\* server.ts:480 with 447-461: one iteration of runSteps(test.steps, "test")
RunTestStep ==
    /\ pc = "steps"
    /\ i < Len(input.tests[testIdx].steps)
    /\ LET step == input.tests[testIdx].steps[i + 1] IN
       \E o \in StepOutcomes(step, state, pageIdCounter, pageObjCounter) :
        /\ o.r \in Possible({o.r})
        /\ Apply(o.r)
        /\ results' = [results EXCEPT !.tests = Append(@, StepEntry(step, o.r))]
        /\ hist' = Append(hist, Ev("test", testIdx, attempt, i + 1, o.inv, o.r.ok))
        /\ i' = i + 1
        /\ IF RunStepsThrows(o.r.ok, input.continueOnError)
           THEN /\ lastErr' = o.r.message
                /\ attempt' = attempt + 1
                /\ pc' = "capture"
                /\ UNCHANGED ok
           ELSE IF i + 1 = Len(input.tests[testIdx].steps)
           THEN /\ ok' = TRUE
                /\ pc' = StepsReturned
                /\ UNCHANGED <<lastErr, attempt>>
           ELSE /\ pc' = "steps"
                /\ UNCHANGED <<ok, lastErr, attempt>>
    /\ UNCHANGED <<concVars, tabVars, heldAtEntry,
                   input, planResults, testIdx, testArtifacts, autoAcquired>>

\* server.ts:482-486  the trace stop after a successful runSteps
TraceStop ==
    /\ pc = "trace_stop"
    /\ LET caught(msg, fault) ==
            /\ lastErr' = msg
            /\ attempt' = attempt + 1
            /\ pc' = "capture"
            /\ faulted' = (faulted \/ fault)
           stopped ==
            /\ pc' = "finalize"
            /\ UNCHANGED <<lastErr, attempt, faulted>>
       IN  IF ~ensurePage(state) THEN caught(MsgNoBrowser, FALSE)
           ELSE stopped \/ (MayFault /\ caught(MsgTraceFailed, TRUE))
    /\ UNCHANGED <<concVars, tabVars, heldAtEntry,
                   brVars, input, planResults, results, i, testIdx, ok, testArtifacts,
                   autoAcquired, hist>>

\* server.ts:489-505  the captures of the catch block and its break
Capture ==
    /\ pc = "capture"
    /\ \E shotOk \in BOOLEAN, traceOk \in BOOLEAN :
        LET test == input.tests[testIdx]
            tryShot == input.onFailureScreenshot /\ ensurePage(state)
            tryTrace == input.traceOnFailure /\ ensurePage(state)
            shot == tryShot /\ shotOk
            trace == tryTrace /\ traceOk
            shotFault == tryShot /\ ~shotOk
            traceFault == tryTrace /\ ~traceOk
            shots == IF shot THEN <<ArtifactFile(test.name, attempt, ".png")>> ELSE <<>>
            traces == IF trace THEN <<ArtifactFile(test.name, attempt, "_trace.zip")>>
                      ELSE <<>>
            shotEv == IF input.onFailureScreenshot
                      THEN <<Ev("screenshot", testIdx, attempt, 0, ensurePage(state), shot)>>
                      ELSE <<>>
            traceEv == IF input.traceOnFailure
                       THEN <<Ev("trace_export", testIdx, attempt, 0, ensurePage(state), trace)>>
                       ELSE <<>>
        IN  /\ ~(shotFault /\ traceFault)
            /\ (shotFault \/ traceFault) => MayFault
            /\ faulted' = (faulted \/ shotFault \/ traceFault)
            /\ testArtifacts' = testArtifacts \o shots \o traces
            /\ hist' = hist \o shotEv \o traceEv
    /\ pc' = IF CatchBreaks(attempt, input.retries) THEN "finalize" ELSE "attempt"
    /\ UNCHANGED <<concVars, tabVars, heldAtEntry,
                   brVars, input, planResults, results, i, testIdx, attempt, ok, lastErr,
                   autoAcquired>>

\* server.ts:508-510  the TestResult and the loop's break
TestFinalize ==
    /\ pc = "finalize"
    /\ results' = [results EXCEPT !.tests =
            Append(@, TestResult(input.tests[testIdx], ok, lastErr, testArtifacts))]
    /\ pc' = IF SuiteBreaks(ok, input.continueOnError) THEN AfterTests
             ELSE IF testIdx < Len(input.tests) THEN "test_start"
             ELSE AfterTests
    /\ UNCHANGED <<concVars, tabVars, heldAtEntry,
                   brVars, input, planResults, i, testIdx, attempt, ok, lastErr,
                   testArtifacts, autoAcquired, faulted, hist>>

\* server.ts:511 with 447-461: one iteration of runSteps(input.teardown, "teardown")
RunTeardownStep ==
    /\ pc = "teardown"
    /\ LET k == Len(results.teardown) IN
       /\ k < Len(input.teardown)
       /\ LET step == input.teardown[k + 1] IN
          \E o \in StepOutcomes(step, state, pageIdCounter, pageObjCounter) :
           /\ o.r \in Possible({o.r})
           /\ Apply(o.r)
           /\ results' = [results EXCEPT !.teardown = Append(@, StepEntry(step, o.r))]
           /\ hist' = Append(hist, Ev("teardown", 0, 0, k + 1, o.inv, o.r.ok))
           /\ pc' = IF RunStepsThrows(o.r.ok, input.continueOnError) THEN "thrown"
                    ELSE IF k + 1 = Len(input.teardown) THEN "finish"
                    ELSE "teardown"
    /\ UNCHANGED <<concVars, tabVars, heldAtEntry,
                   input, planResults, i, testIdx, attempt, ok, lastErr, testArtifacts,
                   autoAcquired>>

\* server.ts:512-521  the report, the release of the browser and the return
SuiteFinish ==
    /\ pc = "finish"
    /\ \E junit \in BOOLEAN :
        /\ input' = [input EXCEPT !.junit = junit]
        /\ results' = [results EXCEPT !.junit = IF junit THEN <<buildJUnit(results)>> ELSE <<>>]
    /\ IF shouldAutoBrowser
       THEN \E r \in Possible(browser_close(state, pageIdCounter, pageObjCounter)) : Apply(r)
       ELSE UNCHANGED <<brVars, faulted>>
    /\ pc' = "returned"
    /\ UNCHANGED <<concVars, tabVars, heldAtEntry,
                   planResults, i, testIdx, attempt, ok, lastErr, testArtifacts,
                   autoAcquired, hist>>

----------------------------------------------------------------------------
(* The server running one test_plan_run call *)

PlanNext ==
    \/ CallBrowserOpen
    \/ PlanCall
    \/ PlanStep

PlanSpec == Init /\ [][PlanNext]_vars

(* The server running one test_suite_run call *)

Next ==
    \/ CallBrowserOpen
    \/ SuiteCall
    \/ SuiteAcquire
    \/ RunSetupStep
    \/ TestStart
    \/ AttemptStart
    \/ RunTestStep
    \/ TraceStop
    \/ Capture
    \/ TestFinalize
    \/ RunTeardownStep
    \/ SuiteFinish

Spec == Init /\ [][Next]_vars

(* The server running one call, a test_plan_run or a test_suite_run *)

OrderNext ==
    \/ CallBrowserOpen
    \/ PlanCall
    \/ PlanStep
    \/ SuiteCall
    \/ SuiteAcquire
    \/ RunSetupStep
    \/ TestStart
    \/ AttemptStart
    \/ RunTestStep
    \/ TraceStop
    \/ Capture
    \/ TestFinalize
    \/ RunTeardownStep
    \/ SuiteFinish

OrderSpec == Init /\ [][OrderNext]_vars

(* The server running one test_suite_run call in which the cleanup         *)
(* operations (trace stop, captures, release) may fail whatever has failed *)
(* before: the driver is ready to fail again when the call reaches one.    *)

\* server.ts:482-485, 489-504, 518-520  the awaits of the cleanup operations
CleanupMayFail ==
    /\ pc \in {"trace_stop", "capture", "finish"}
    /\ faulted
    /\ faulted' = FALSE
    /\ UNCHANGED <<concVars, tabVars, heldAtEntry, brVars, pc, input, planResults, results, i,
                   testIdx, attempt, ok, lastErr, testArtifacts, autoAcquired, hist>>

CleanupNext ==
    \/ Next
    \/ CleanupMayFail

CleanupSpec == Init /\ [][CleanupNext]_vars

----------------------------------------------------------------------------
(* buildJUnit applied to result logs: the tests log of a call that has     *)
(* reached line 512 is, for each test executed, the entries of the steps   *)
(* its attempts ran followed by its TestResult.                            *)

\* Names of tests with the characters escapeXml replaces.
ReportNames == {TestName(1), <<"a", "<", "b", ">">>, <<"\"", "&", "'">>}

\* server.ts:455, 457  entries runSteps pushes
LoggedSteps ==
    {StepEntry(Step("page_click", TRUE), Res(TRUE, "ok", EmptyState, 1, 0)),
     StepEntry(Step("page_click", TRUE), Res(FALSE, MsgActionFailed, EmptyState, 1, 0))}

\* server.ts:508  TestResults
LoggedResults ==
    {TestResult([name |-> n], TRUE, Null, <<>>) : n \in ReportNames}
        \cup {TestResult([name |-> n], FALSE, m, <<>>) :
                  n \in ReportNames, m \in {MsgActionFailed, MsgNoBrowser}}

\* What one executed test leaves in the tests log.
LoggedTests == {ss \o <<r>> : ss \in SeqsUpTo(LoggedSteps, MaxLogSteps), r \in LoggedResults}

RECURSIVE Logs(_)
\* The tests logs of n executed tests.
Logs(n) ==
    IF n = 0 THEN {<<>>}
    ELSE {log \o t : log \in Logs(n - 1), t \in LoggedTests}

\* A call with input.junit set stands at line 512 with some tests log;
\* hist keeps that log as it was before any rendering.
ReportInit ==
    /\ \E n \in 0..MaxLogTests : \E log \in Logs(n) :
        /\ results = [NoResults EXCEPT !.tests = log]
        /\ hist = log
    /\ input = [NoInput EXCEPT !.kind = "suite", !.junit = TRUE]
    /\ pc = "finish"
    /\ state = EmptyState
    /\ pageIdCounter = 1
    /\ pageObjCounter = 0
    /\ planResults = <<>>
    /\ i = 0
    /\ testIdx = 0
    /\ attempt = 0
    /\ ok = FALSE
    /\ lastErr = Null
    /\ testArtifacts = <<>>
    /\ autoAcquired = FALSE
    /\ faulted = FALSE
    /\ heldAtEntry = FALSE
    /\ shared = NoBrowser
    /\ runs = <<>>
    /\ tabs = {}
    /\ last = NoCall

\* server.ts:512-513, 521  results.junit = buildJUnit(results), and the return
Render ==
    /\ pc = "finish"
    /\ results' = [results EXCEPT !.junit = <<buildJUnit(results)>>]
    /\ pc' = "returned"
    /\ UNCHANGED <<concVars, tabVars, heldAtEntry, brVars, input, planResults, i, testIdx, attempt,
                   ok, lastErr, testArtifacts, autoAcquired, faulted, hist>>

\* server.ts:585  the report rendered once more, from the SuiteResult returned
RenderAgain ==
    /\ pc = "returned"
    /\ results' = [results EXCEPT !.junit = <<buildJUnit(results)>>]
    /\ pc' = "rendered"
    /\ UNCHANGED <<concVars, tabVars, heldAtEntry, brVars, input, planResults, i, testIdx, attempt,
                   ok, lastErr, testArtifacts, autoAcquired, faulted, hist>>

ReportNext ==
    \/ Render
    \/ RenderAgain

ReportSpec == ReportInit /\ [][ReportNext]_vars

----------------------------------------------------------------------------
(* test_suite_run calls interleaved at their awaits.  The server starts a  *)
(* handler for every request as it arrives; a handler runs until its next  *)
(* await, where another handler may run.  Each action below is one such    *)
(* stretch of one call.  The Browser a call launches and its Page are      *)
(* identified by the number of the call.                                   *)

seqVars ==
    <<state, pageIdCounter, pageObjCounter, pc, input, planResults, results, i, testIdx,
      attempt, ok, lastErr, testArtifacts, autoAcquired, faulted, hist, heldAtEntry,
      tabs, last>>

\* The locals of a call: its position, input.autoBrowser, the steps it has
\* still to run, and the Browser it launched (0 = none).
Call(at, ab, n, b) == [pc |-> at, autoBrowser |-> ab, stepsLeft |-> n, launched |-> b]

\* server.ts:444, 462-465 with 207-220: the call begins; when it is to open
\* the browser it runs into browser_open up to the await of chromium.launch
CallSuite ==
    /\ Len(runs) < MaxCalls
    /\ \E ab \in BOOLEAN, n \in 0..MaxCallSteps :
        runs' = Append(runs, Call(IF ab /\ shared.browser = 0 THEN "launch" ELSE "run",
                                  ab, n, 0))
    /\ UNCHANGED <<shared, seqVars>>

\* server.ts:220-221: the launch resolves, state.browser is assigned, and
\* newContext is awaited
LaunchDone(p) ==
    /\ runs[p].pc = "launch"
    /\ shared' = [shared EXCEPT !.browser = p]
    /\ runs' = [runs EXCEPT ![p].pc = "context", ![p].launched = p]
    /\ UNCHANGED seqVars

\* server.ts:221-222: the context is there, newPage is awaited
ContextDone(p) ==
    /\ runs[p].pc = "context"
    /\ runs' = [runs EXCEPT ![p].pc = "page"]
    /\ UNCHANGED <<shared, seqVars>>

\* server.ts:222-227, 465: the page of the launched browser is assigned and
\* browser_open returns into the call
PageDone(p) ==
    /\ runs[p].pc = "page"
    /\ shared' = [shared EXCEPT !.page = p]
    /\ runs' = [runs EXCEPT ![p].pc = "run"]
    /\ UNCHANGED seqVars

\* server.ts:466-511: one step of the call (an action on the page, with
\* its await)
CallStep(p) ==
    /\ runs[p].pc = "run"
    /\ runs[p].stepsLeft > 0
    /\ runs' = [runs EXCEPT ![p].stepsLeft = @ - 1]
    /\ UNCHANGED <<shared, seqVars>>

\* server.ts:518-519 with 232-233: the release; browser_close calls close()
\* on the Browser that state.browser holds now and awaits it
ReleaseBegin(p) ==
    /\ runs[p].pc = "run"
    /\ runs[p].stepsLeft = 0
    /\ IF runs[p].autoBrowser /\ shared.browser # 0
       THEN /\ shared' = [shared EXCEPT !.closed = @ \cup {shared.browser}]
            /\ runs' = [runs EXCEPT ![p].pc = "closing"]
       ELSE /\ runs' = [runs EXCEPT ![p].pc = "returned"]
            /\ UNCHANGED shared
    /\ UNCHANGED seqVars

\* server.ts:234-237, 521: close() resolved, the state is cleared, the call
\* returns
ReleaseDone(p) ==
    /\ runs[p].pc = "closing"
    /\ shared' = [shared EXCEPT !.browser = 0, !.page = 0]
    /\ runs' = [runs EXCEPT ![p].pc = "returned"]
    /\ UNCHANGED seqVars

ConcNext ==
    \/ CallSuite
    \/ \E p \in 1..Len(runs) : LaunchDone(p)
    \/ \E p \in 1..Len(runs) : ContextDone(p)
    \/ \E p \in 1..Len(runs) : PageDone(p)
    \/ \E p \in 1..Len(runs) : CallStep(p)
    \/ \E p \in 1..Len(runs) : ReleaseBegin(p)
    \/ \E p \in 1..Len(runs) : ReleaseDone(p)

ConcSpec == Init /\ [][ConcNext]_vars

(* The retry loop of one test: a test_suite_run call with one test and no  *)
(* setup stands before its loop over the tests, and every call it makes of *)
(* the driver (trace start, a step's close, trace stop, the captures) may  *)
(* fail, whatever has failed before.                                       *)

\* The suites of the loop: setup and teardown empty, one test.
LoopShapes == {<<0, 0, k>> : k \in 0..MaxLoopSteps}

\* server.ts:462-471  the call has passed the acquisition and the empty
\* setup: with autoBrowser it holds the browser it opened.
LoopInit ==
    /\ \E lens \in LoopShapes :
       \E flat \in [1..SumTo(lens, Len(lens)) -> SuiteStepValues] :
       \E c \in BOOLEAN, r \in 0..MaxLoopRetries, ab \in BOOLEAN, sh \in BOOLEAN,
          tr \in BOOLEAN :
        /\ input = SuiteInput(lens, flat, c, r, ab, sh, tr)
        /\ autoAcquired = ab
        /\ \E o \in browser_open(EmptyState, 1, 0) :
            /\ o.ok
            /\ state = IF ab THEN o.state ELSE EmptyState
            /\ pageIdCounter = IF ab THEN o.idc ELSE 1
            /\ pageObjCounter = IF ab THEN o.objc ELSE 0
    /\ pc = "test_start"
    /\ planResults = <<>>
    /\ results = NoResults
    /\ i = 0
    /\ testIdx = 0
    /\ attempt = 0
    /\ ok = FALSE
    /\ lastErr = Null
    /\ testArtifacts = <<>>
    /\ faulted = FALSE
    /\ hist = <<>>
    /\ heldAtEntry = FALSE
    /\ shared = NoBrowser
    /\ runs = <<>>
    /\ tabs = {}
    /\ last = NoCall

\* server.ts:474-505  the awaits of the loop: the driver is ready to fail again
DriverMayFailAgain ==
    /\ pc \in {"attempt", "steps", "trace_stop", "capture"}
    /\ faulted
    /\ faulted' = FALSE
    /\ UNCHANGED <<concVars, tabVars, heldAtEntry, brVars, pc, input, planResults, results, i,
                   testIdx, attempt, ok, lastErr, testArtifacts, autoAcquired, hist>>

LoopNext ==
    \/ TestStart
    \/ AttemptStart
    \/ RunTestStep
    \/ TraceStop
    \/ Capture
    \/ TestFinalize
    \/ DriverMayFailAgain

LoopSpec == LoopInit /\ [][LoopNext]_vars

----------------------------------------------------------------------------
(* The server running tab calls one after the other: browser_open,         *)
(* browser_close, page_new, page_switch and page_close, each through the   *)
(* CallTool handler (server.ts:565), which parses the arguments first.     *)

\* The ids a caller passes: z.string() takes every string, the empty one
\* and one that nextPageId generates as well.
CallerIds == {"", "a", "page2"}

\* The ids a caller may name in page_switch and page_close.
NamedIds == CallerIds \cup {nextPageId(n) : n \in 1..MaxPages}

\* The entry of tabs for the page a call has just opened.
Opened(r) == [id |-> r.state.currentPageId, obj |-> r.state.page]

\* A call of tool op with argument id that has result r.  tabs is what the
\* driver has open: nowOpen tells it for a call that resolved.
TabCall(op, id, r, nowOpen) ==
    /\ Apply(r)
    /\ last' = [op |-> op, id |-> id, before |-> state, ok |-> r.ok, message |-> r.message]
    /\ tabs' = IF r.ok THEN nowOpen ELSE tabs
    /\ UNCHANGED <<concVars, runVars>>

\* server.ts:206
CallTabBrowserOpen ==
    /\ pc = "idle"
    /\ pageObjCounter < MaxPages
    /\ \E r \in Possible(browser_open(state, pageIdCounter, pageObjCounter)) :
        TabCall("browser_open", Null, r, {Opened(r)})

\* server.ts:231
CallBrowserClose ==
    /\ pc = "idle"
    /\ \E r \in Possible(browser_close(state, pageIdCounter, pageObjCounter)) :
        TabCall("browser_close", Null, r, {})

\* server.ts:251
CallPageNew ==
    /\ pc = "idle"
    /\ pageObjCounter < MaxPages
    /\ \E id \in CallerIds \cup {Null} :
       \E r \in Possible(page_new(state, pageIdCounter, pageObjCounter, id)) :
        TabCall("page_new", id, r, tabs \cup {Opened(r)})

\* server.ts:261
CallPageSwitch ==
    /\ pc = "idle"
    /\ \E id \in NamedIds :
       \E r \in Possible(page_switch(state, pageIdCounter, pageObjCounter, id)) :
        TabCall("page_switch", id, r, tabs)

\* server.ts:270  p.close() closes the Page object the id names
CallPageClose ==
    /\ pc = "idle"
    /\ \E id \in NamedIds \cup {Null} :
       \E r \in Possible(page_close(state, pageIdCounter, pageObjCounter, id)) :
        LET cid == IF id = Null THEN state.currentPageId ELSE id
        IN  TabCall("page_close", id, r, {e \in tabs : e.obj # MapGet(state.pages, cid)})

TabNext ==
    \/ CallTabBrowserOpen
    \/ CallBrowserClose
    \/ CallPageNew
    \/ CallPageSwitch
    \/ CallPageClose

TabSpec == Init /\ [][TabNext]_vars

----------------------------------------------------------------------------
(* Properties *)

Ended == pc \in {"returned", "thrown"}

IsPlan == input.kind = "plan"

IsSuite == input.kind = "suite"

\* C1: in a plan run with continueOnError=false, the first failing step k
\* (unknown tool, rejected arguments or failed action) ends the run at once:
\* the log has exactly k entries, the call has returned and no later step
\* has been executed.
C1_PlanStopsAtFirstFailure ==
    (IsPlan /\ ~input.continueOnError) =>
        \A j \in 1..Len(hist) :
            ~hist[j].ok =>
                /\ Len(hist) = j
                /\ hist[j].k = j
                /\ Len(planResults) = j
                /\ ~planResults[j].ok
                /\ \A m \in 1..(j - 1) : planResults[m].ok
                /\ pc = "returned"

\* C1 witness: a plan of three steps without continueOnError has returned
\* after its second step failed.
C1_Witness ==
    /\ IsPlan /\ ~input.continueOnError /\ pc = "returned"
    /\ Len(input.steps) = 3
    /\ Len(planResults) = 2
    /\ planResults[1].ok /\ ~planResults[2].ok

\* C2: a plan run with continueOnError=true returns a log with one entry
\* per step of the plan, in step order, whatever fails.
C2_PlanLogIsComplete ==
    (IsPlan /\ input.continueOnError /\ pc = "returned") =>
        /\ Len(planResults) = Len(input.steps)
        /\ \A k \in 1..Len(planResults) :
            planResults[k].step = k /\ planResults[k].name = input.steps[k].name

\* C2 witness: a plan of three steps with continueOnError has returned with
\* its first two steps failed and the third succeeded.
C2_Witness ==
    /\ IsPlan /\ input.continueOnError /\ pc = "returned"
    /\ Len(input.steps) = 3 /\ Len(planResults) = 3
    /\ ~planResults[1].ok /\ ~planResults[2].ok /\ planResults[3].ok

----------------------------------------------------------------------------
(* Properties of test_suite_run *)

SetupFailed == \E j \in 1..Len(hist) : hist[j].ph = "setup" /\ ~hist[j].ok

\* C6: once a setup step has failed in a suite without continueOnError, the
\* call has ended with that error: no attempt of any test has been started,
\* no step of any test executed and nothing is in the tests log.
C6_SetupFailureAbortsTests ==
    (IsSuite /\ ~input.continueOnError /\ SetupFailed) =>
        /\ pc = "thrown"
        /\ results.tests = <<>>
        /\ \A j \in 1..Len(hist) : hist[j].ph = "setup"

\* C6 witness: the call has ended on a failed setup step of a suite that has
\* a test with a step.
C6_Witness ==
    /\ IsSuite /\ ~input.continueOnError /\ SetupFailed /\ Ended
    /\ Len(input.tests) > 0
    /\ Len(input.tests[1].steps) > 0

\* The TestResults of the tests log, in the order they were pushed: the
\* t-th is that of test t.
TestResults == SelectSeq(results.tests, IsTestResult)

\* The attempts of test t that were started (0-based, as the code counts).
AttemptsOf(t) ==
    {hist[j].a : j \in {m \in 1..Len(hist) : hist[m].ph = "attempt" /\ hist[m].t = t}}

\* Attempt a of test t ran every step of the test and every step succeeded.
SuccessfulAttempt(t, a) ==
    /\ \E j \in 1..Len(hist) :
        hist[j].ph = "attempt" /\ hist[j].t = t /\ hist[j].a = a /\ hist[j].inv
    /\ \A k \in 1..Len(input.tests[t].steps) :
        \E j \in 1..Len(hist) :
            hist[j].ph = "test" /\ hist[j].t = t /\ hist[j].a = a /\ hist[j].k = k
            /\ hist[j].ok

Succeeded(t) == \E a \in 0..input.retries : SuccessfulAttempt(t, a)

\* min(index of the first successful attempt, R+1), attempts counted from 1.
ExpectedAttempts(t) ==
    LET wins == {a \in 0..input.retries : SuccessfulAttempt(t, a)}
    IN  IF wins = {} THEN input.retries + 1
        ELSE (CHOOSE a \in wins : \A b \in wins : a <= b) + 1

Screenshots(t) == SelectSeq(TestResults[t].artifacts, LAMBDA f : f.suffix = ".png")

EveryScreenshotTaken(t) ==
    \A j \in 1..Len(hist) : (hist[j].ph = "screenshot" /\ hist[j].t = t) => hist[j].ok

\* C3: for every finalized test of a suite with retries=R, the attempts made
\* are min(first successful attempt, R+1); when no attempt succeeded the
\* TestResult has ok=false and, with onFailureScreenshot and every capture
\* succeeding, R+1 screenshots.
C3_AttemptCount ==
    IsSuite =>
        \A t \in 1..Len(TestResults) :
            /\ Cardinality(AttemptsOf(t)) = ExpectedAttempts(t)
            /\ ~Succeeded(t) =>
                /\ ~TestResults[t].ok
                /\ (input.onFailureScreenshot /\ EveryScreenshotTaken(t)) =>
                    Len(Screenshots(t)) = input.retries + 1

TeardownRuns ==
    Cardinality({j \in 1..Len(hist) : hist[j].ph = "teardown" /\ hist[j].k = 1})

\* C4: when a test_suite_run call has ended (the driver never having
\* failed), its teardown steps have been run exactly once.
C4_TeardownRunsOnce ==
    (IsSuite /\ Ended /\ ~faulted /\ Len(input.teardown) > 0) => TeardownRuns = 1

\* C5: when a test_suite_run call that opened the browser itself has ended
\* (the driver never having failed), no browser is held.
C5_AutoBrowserReleased ==
    (IsSuite /\ Ended /\ ~faulted /\ autoAcquired) => ~state.browser

\* C7: after a step of an attempt has failed, no later step of that attempt
\* is run and the attempt counts as failed (the attempt counter has moved
\* past it), whatever continueOnError is.
C7_TestStepsAbortOnFailure ==
    IsSuite =>
        \A j \in 1..Len(hist) :
            (hist[j].ph = "test" /\ ~hist[j].ok) =>
                /\ \A m \in (j + 1)..Len(hist) :
                    ~(hist[m].ph = "test" /\ hist[m].t = hist[j].t /\ hist[m].a = hist[j].a)
                /\ hist[j].t = testIdx => attempt > hist[j].a

\* C8: the TestResult of a test has ok=true if and only if some attempt
\* within the retry budget ran every step with every step succeeding.
C8_OkIffAnAttemptSucceeded ==
    IsSuite => \A t \in 1..Len(TestResults) : TestResults[t].ok <=> Succeeded(t)

\* C9: once an attempt of a test (one that has steps) has succeeded, no
\* further attempt of that test is started.
C9_NoAttemptAfterSuccess ==
    IsSuite =>
        \A j \in 1..Len(hist) :
            (hist[j].ph = "attempt" /\ Len(input.tests[hist[j].t].steps) > 0) =>
                \A a \in 0..(hist[j].a - 1) : ~SuccessfulAttempt(hist[j].t, a)

\* A step of test t failed.
StepFailed(t) == \E j \in 1..Len(hist) : hist[j].ph = "test" /\ hist[j].t = t /\ ~hist[j].ok

\* The call ends with an error only out of the acquisition, setup or
\* teardown: never out of the loop over the tests.
SuiteThrowsOnlyOutsideTests ==
    (IsSuite /\ pc = "thrown") =>
        \/ hist = <<>>
        \/ hist[Len(hist)].ph \in {"setup", "teardown"} /\ ~hist[Len(hist)].ok

\* C10: a failed step of a test never ends the call with an error; it shows
\* only as the TestResult of its test, with ok=false and the error, unless
\* an attempt of the test succeeded.
C10_TestFailureContained ==
    /\ SuiteThrowsOnlyOutsideTests
    /\ IsSuite =>
        \A t \in 1..Len(TestResults) :
            (StepFailed(t) /\ ~Succeeded(t)) =>
                ~TestResults[t].ok /\ TestResults[t].error # Null

\* C11: in a suite with continueOnError=false, once the TestResult of a
\* test has ok=false, it is the last TestResult, no attempt and no step of
\* a later test is in the history, the call is at the teardown or past it,
\* and when the call has ended its teardown steps have been run.
C11_FailedTestStopsSuite ==
    (IsSuite /\ ~input.continueOnError) =>
        \A t \in 1..Len(TestResults) :
            ~TestResults[t].ok =>
                /\ Len(TestResults) = t
                /\ \A j \in 1..Len(hist) : hist[j].t <= t
                /\ pc \in {"teardown", "finish", "returned", "thrown"}
                /\ (Ended /\ Len(input.teardown) > 0) => TeardownRuns = 1

\* C11 witness: a suite of two tests without continueOnError has ended; a
\* step of its first test failed, only that test has a TestResult and the
\* teardown has been run.
C11_Witness ==
    /\ IsSuite /\ ~input.continueOnError /\ Ended
    /\ Len(input.tests) = 2
    /\ StepFailed(1)
    /\ Len(TestResults) = 1 /\ ~TestResults[1].ok
    /\ TeardownRuns = 1

FailedTestResults == SelectSeq(TestResults, LAMBDA t : ~t.ok)

\* C12: the report of a suite run that has returned has tests = the number
\* of tests executed, failures = the number of TestResults with ok=false,
\* and one testcase element per executed test, with a failure child exactly
\* for the failed ones.
C12_JUnitCountsTests ==
    (IsSuite /\ pc = "returned" /\ results.junit # <<>>) =>
        LET report == results.junit[1] IN
        /\ report.tests = Len(TestResults)
        /\ report.failures = Len(FailedTestResults)
        /\ Len(report.cases) = Len(TestResults)
        /\ \A t \in 1..Len(TestResults) :
            t <= Len(report.cases) => report.cases[t].failure = ~TestResults[t].ok

\* The tests that have been finalized: those before the running one, and
\* the running one once its TestResult has been pushed.
ExecutedTests == Len(TestResults)

SetupEvents == SelectSeq(hist, LAMBDA e : e.ph = "setup")

TeardownEvents == SelectSeq(hist, LAMBDA e : e.ph = "teardown")

\* C13: in the SuiteResult of a call that has returned, the tests log holds
\* TestResults only, one per executed test in suite order, and the setup
\* and teardown logs hold exactly the entries of the steps of their phase.
C13_TestsLogHoldsTestResultsOnly ==
    (IsSuite /\ pc = "returned") =>
        /\ \A k \in 1..Len(results.tests) : IsTestResult(results.tests[k])
        /\ Len(results.tests) = ExecutedTests
        /\ \A t \in 1..Len(results.tests) : results.tests[t].name = input.tests[t].name
        /\ Len(results.setup) = Len(SetupEvents)
        /\ \A k \in 1..Len(results.setup) :
            /\ results.setup[k].name = input.setup[k].name
            /\ results.setup[k].ok = SetupEvents[k].ok
        /\ Len(results.teardown) = Len(TeardownEvents)
        /\ \A k \in 1..Len(results.teardown) :
            /\ results.teardown[k].name = input.teardown[k].name
            /\ results.teardown[k].ok = TeardownEvents[k].ok

\* The step an event of the history is the execution of.
StepOf(e) ==
    CASE e.ph = "setup" -> input.setup[e.k]
      [] e.ph = "teardown" -> input.teardown[e.k]
      [] e.ph = "test" -> input.tests[e.t].steps[e.k]
      [] e.ph = "plan" -> input.steps[e.k]

IsStepEvent(e) == e.ph \in {"setup", "test", "teardown"}

\* A step of the running suite call has called browser_close.
ClosedByStep ==
    \E j \in 1..Len(hist) :
        IsStepEvent(hist[j]) /\ StepOf(hist[j]).name = "browser_close" /\ hist[j].inv

\* C14: when a test_suite_run call that began with a browser held has
\* returned, and no step of it called browser_close, the browser is still
\* held.
C14_ReleaseOnlyIfAcquired ==
    (IsSuite /\ pc = "returned" /\ heldAtEntry /\ ~ClosedByStep) =>
        /\ ~autoAcquired
        /\ state.browser

\* The artifacts listed in the TestResult of test t.
ArtifactsOf(t) == TestResults[t].artifacts

\* Every capture of test t that was enabled found a page and succeeded.
EveryCaptureSucceeded(t) ==
    \A j \in 1..Len(hist) :
        (hist[j].ph \in {"screenshot", "trace_export"} /\ hist[j].t = t) => hist[j].ok

\* The names of the artifacts of test t: the sanitized name of the test, an
\* attempt number from 1 to retries+1 of an attempt that was started, a
\* suffix whose capture is enabled, and no name twice.
ArtifactNamesRight(t) ==
    \A n \in 1..Len(ArtifactsOf(t)) :
        LET f == ArtifactsOf(t)[n] IN
        /\ f.base = sanitizeFilename(input.tests[t].name)
        /\ f.attempt \in 1..(input.retries + 1)
        /\ (f.attempt - 1) \in AttemptsOf(t)
        /\ f.suffix \in {".png", "_trace.zip"}
        /\ f.suffix = ".png" => input.onFailureScreenshot
        /\ f.suffix = "_trace.zip" => input.traceOnFailure
        /\ \A m \in 1..Len(ArtifactsOf(t)) : m # n => ArtifactsOf(t)[m] # f

\* C15: every artifact of a TestResult is named after the sanitized test
\* name and the 1-based number of an attempt of that test which failed, its
\* capture being enabled, and is listed once; a test of a suite with
\* retries=0 and only onFailureScreenshot that had a failed step, its
\* capture succeeding, has exactly one artifact, <name>_attempt1.png.
C15_ArtifactsOfFailingAttempts ==
    IsSuite =>
        \A t \in 1..Len(TestResults) :
            /\ ArtifactNamesRight(t)
            /\ \A n \in 1..Len(ArtifactsOf(t)) :
                ~SuccessfulAttempt(t, ArtifactsOf(t)[n].attempt - 1)
            /\ (/\ input.retries = 0
                /\ input.onFailureScreenshot /\ ~input.traceOnFailure
                /\ StepFailed(t) /\ EveryCaptureSucceeded(t)) =>
                    ArtifactsOf(t) = <<ArtifactFile(input.tests[t].name, 1, ".png")>>

\* Step k of the plan names no tool of the registry.
UnknownAction(k) == input.steps[k].name \notin Tools

\* A plan call never ends with an error, and its log holds one entry for
\* each step executed, in order, each with the outcome of its step.
PlanReturnsItsLog ==
    IsPlan =>
        /\ pc # "thrown"
        /\ Len(planResults) = Len(hist)
        /\ \A k \in 1..Len(planResults) :
            /\ planResults[k].step = k
            /\ planResults[k].name = input.steps[k].name
            /\ planResults[k].ok = hist[k].ok

\* C16: test_plan_run never ends with an error because of a step: it
\* returns the log of the steps executed (partial when a step failed and
\* continueOnError=false), and a step naming an unknown action is recorded
\* with ok=false and the unknown-action message, no handler being invoked.
C16_PlanNeverThrows ==
    /\ PlanReturnsItsLog
    /\ IsPlan =>
        \A k \in 1..Len(planResults) :
            UnknownAction(k) =>
                /\ ~planResults[k].ok
                /\ ~hist[k].inv
                /\ planResults[k].message = MsgUnknownTool

\* Event j of the history is the execution of a step that names no tool of
\* the registry.
UnknownStepAt(j) ==
    /\ hist[j].ph \in {"plan", "setup", "test", "teardown"}
    /\ StepOf(hist[j]).name \notin Tools

\* C17: a step naming an action that is not in the registry is recorded as
\* failed, no handler being invoked, and the runner does not raise because
\* of it: the call has not ended with an error on that step, and the error
\* the retry loop last caught is not the unknown-action error.
C17_UnknownActionNeverRaises ==
    /\ \A j \in 1..Len(hist) :
        UnknownStepAt(j) =>
            /\ ~hist[j].ok
            /\ ~hist[j].inv
            /\ ~(pc = "thrown" /\ j = Len(hist))
    /\ lastErr # MsgUnknownTool

RunStepsReturned(t, a) ==
    /\ \E j \in 1..Len(hist) :
        hist[j].ph = "attempt" /\ hist[j].t = t /\ hist[j].a = a /\ hist[j].inv
    /\ \A k \in 1..Len(input.tests[t].steps) :
        \E j \in 1..Len(hist) :
            /\ hist[j].ph = "test" /\ hist[j].t = t /\ hist[j].a = a /\ hist[j].k = k
            /\ ~RunStepsThrows(hist[j].ok, input.continueOnError)

\* Event j is a step of a test executed again after runSteps had already
\* returned for that test: an execution that only a failed trace stop
\* brings about.
RerunEvent(j) ==
    /\ hist[j].ph = "test"
    /\ \E a \in 0..(hist[j].a - 1) : RunStepsReturned(hist[j].t, a)

\* The steps of test t, executed again, closed the browser: the first step
\* of the re-execution, which follows a trace start that found the page, is
\* a browser_close that succeeded.
ClosedByRerun(t) ==
    \E j \in 1..Len(hist) :
        /\ RerunEvent(j) /\ hist[j].t = t /\ hist[j].k = 1
        /\ StepOf(hist[j]).name = "browser_close" /\ hist[j].inv /\ hist[j].ok

\* Every attempt of test t failed at its trace start for want of a page.
FailedForWantOfPage(t) ==
    /\ ~TestResults[t].ok
    /\ TestResults[t].error = MsgNoBrowser
    /\ \A j \in 1..Len(hist) : (hist[j].ph = "attempt" /\ hist[j].t = t) => ~hist[j].inv

\* C19: a failure of a capture, of a trace stop or of the release never ends
\* the call with an error and never changes the ok of a TestResult: the
\* call ends with an error only out of the acquisition, the setup or the
\* teardown, and no test is reported failed for want of the browser that
\* the steps of the test before it closed when they were executed again
\* after a failed trace stop (where the trace stop succeeds they are not
\* executed again and the test finds the browser open).
C19_CleanupErrorsSuppressed ==
    /\ SuiteThrowsOnlyOutsideTests
    /\ IsSuite =>
        \A t \in 2..Len(TestResults) : ~(ClosedByRerun(t - 1) /\ FailedForWantOfPage(t))

\* Call p has opened the browser itself and has not yet begun to release it.
OwnsBrowser(p) == runs[p].pc = "run" /\ runs[p].launched = p

\* C20: while a test_suite_run call that opened the browser itself is
\* between its acquisition and its release, the state holds the Browser and
\* the Page it opened, and close() has not been called on that Browser.
C20_BrowserExclusivelyOwned ==
    \A p \in 1..Len(runs) :
        OwnsBrowser(p) =>
            /\ shared.browser = p
            /\ shared.page = p
            /\ p \notin shared.closed

\* The place of a phase in a run: the plan loop, or setup, tests, teardown.
PhaseRank(ph) ==
    CASE ph = "plan" -> 0
      [] ph = "setup" -> 1
      [] ph \in {"attempt", "test", "screenshot", "trace_export"} -> 2
      [] ph = "teardown" -> 3

IsRunStep(e) == e.ph \in {"plan", "setup", "test", "teardown"}

\* Event f directly follows event e in the history, and the run's order
\* allows it: phases, tests and attempts never go back, and step k of a
\* list follows step k-1 of the same list in the same attempt.
Follows(e, f) ==
    /\ PhaseRank(e.ph) <= PhaseRank(f.ph)
    /\ (PhaseRank(e.ph) = 2 /\ PhaseRank(f.ph) = 2) =>
        /\ e.t <= f.t
        /\ (e.t = f.t) => e.a <= f.a
    /\ (IsRunStep(f) /\ f.k > 1) =>
        (e.ph = f.ph /\ e.t = f.t /\ e.a = f.a /\ e.k = f.k - 1)
    /\ (f.ph = "test") =>
        \/ e.ph = "test" /\ f.k > 1
        \/ e.ph = "attempt" /\ e.t = f.t /\ e.a = f.a /\ e.inv

TestStepEvents == SelectSeq(hist, LAMBDA e : e.ph = "test")

TestStepEntries == SelectSeq(results.tests, LAMBDA e : ~IsTestResult(e))

\* The number of entries before the t-th TestResult of the tests log that
\* are not TestResults.
RECURSIVE EntriesBefore(_, _, _)
EntriesBefore(log, t, n) ==
    IF IsTestResult(Head(log))
    THEN IF t = 1 THEN n ELSE EntriesBefore(Tail(log), t - 1, n)
    ELSE EntriesBefore(Tail(log), t, n + 1)

\* The log holds one entry per event, in the events' order, each the entry
\* of the step the event is the execution of.
LogFollows(log, events) ==
    /\ Len(log) = Len(events)
    /\ \A j \in 1..Len(log) :
        /\ log[j].name = StepOf(events[j]).name
        /\ log[j].ok = events[j].ok

\* C21: within one plan or suite run, steps and tests execute strictly in
\* order.  The history of the run holds what was executed, in the order of
\* execution: in it a step follows the previous step of its list, a test's
\* first attempt follows everything of the tests before it, and the entries
\* of every result log are in the order of the history.  The TestResult of
\* test t is pushed before any step of a later test is run.
C21_StrictOrder ==
    /\ \A j \in 1..(Len(hist) - 1) : Follows(hist[j], hist[j + 1])
    /\ (Len(hist) > 0 /\ IsRunStep(hist[1])) => hist[1].k = 1
    /\ IsPlan =>
        /\ LogFollows(planResults, hist)
        /\ \A j \in 1..Len(planResults) : planResults[j].step = j /\ hist[j].k = j
    /\ IsSuite =>
        /\ LogFollows(results.setup, SetupEvents)
        /\ LogFollows(results.teardown, TeardownEvents)
        /\ LogFollows(TestStepEntries, TestStepEvents)
        /\ \A t \in 1..Len(TestResults) :
            /\ TestResults[t].name = input.tests[t].name
            /\ EntriesBefore(results.tests, t, 0) =
                   Len(SelectSeq(TestStepEvents, LAMBDA e : e.t <= t))
        /\ Len(TestResults) \in {testIdx - 1, testIdx} \cap Nat

\* A suite has run two tests of one step each and returned.
C21_Witness ==
    /\ pc = "returned"
    /\ IsSuite
    /\ Len(TestResults) = 2
    /\ EntriesBefore(results.tests, 1, 0) = 1
    /\ EntriesBefore(results.tests, 2, 0) = 2
    /\ \E j \in 1..Len(hist) : hist[j].ph = "test" /\ hist[j].t = 2

\* C22: after any sequence of tab calls, resolved or rejected, the tab
\* state is consistent: state.page is set exactly when state.currentPageId
\* is, state.page is the page registered under state.currentPageId, and
\* with no browser held the registry is empty and there is no active page.
C22_TabStateConsistent ==
    /\ (state.page # 0) <=> (state.currentPageId # Null)
    /\ (state.currentPageId # Null) =>
        MapGet(state.pages, state.currentPageId) = state.page
    /\ ~state.browser => (state.pages = <<>> /\ state.page = 0)

\* C23: page_new never replaces a page that is registered: after any
\* sequence of tab calls, every page that was opened and has not been
\* closed is registered under the id it was opened with.
C23_OpenPagesStayRegistered ==
    \A e \in tabs : MapGet(state.pages, e.id) = e.obj

\* What the last call was to close: input.id, the current page without it.
NamedPage == IF last.id = Null THEN last.before.currentPageId ELSE last.id

\* The registry the last call found, without the named page.
Remaining == MapDelete(last.before.pages, NamedPage)

\* C24: page_close removes exactly the named page, the current page when
\* no id is given.  Closing a page that is not the current one leaves
\* state.page and state.currentPageId as they were; closing the current
\* page makes the earliest-registered remaining page current, or leaves no
\* current page when none remains; closing an unknown id fails and changes
\* nothing.  (A close the driver rejects changes nothing either.)
C24_PageCloseRemovesNamedPage ==
    (last.op = "page_close") =>
        LET b == last.before
            known == NamedPage # Null /\ MapGet(b.pages, NamedPage) # 0
        IN  /\ ~known => (~last.ok /\ state = b)
            /\ known => (last.ok \/ last.message = MsgCloseFailed)
            /\ ~last.ok => state = b
            /\ last.ok =>
                /\ state.pages = Remaining
                /\ state.browser = b.browser
                /\ (b.currentPageId # NamedPage) =>
                    /\ state.page = b.page
                    /\ state.currentPageId = b.currentPageId
                /\ (b.currentPageId = NamedPage /\ Remaining = <<>>) =>
                    /\ state.page = 0
                    /\ state.currentPageId = Null
                /\ (b.currentPageId = NamedPage /\ Remaining # <<>>) =>
                    /\ state.page = Remaining[1].obj
                    /\ state.currentPageId = Remaining[1].id

\* The attempts of test t, in the order they began.
AttemptEvents(t) == SelectSeq(hist, LAMBDA e : e.ph = "attempt" /\ e.t = t)

\* The call is inside the retry loop of the test it has taken.
InRetryLoop == pc \in {"attempt", "steps", "trace_stop", "capture"}

\* C25: for every test of a suite with retries=R, the test's steps are
\* attempted at least once and at most R+1 times, whatever fails (steps,
\* trace start, trace stop, captures), so the retry loop terminates: the
\* attempts of a test are numbered 0, 1, 2, ... without a repeat, none has
\* a number above R, a finalized test has had one at least, and inside the
\* loop the counter never passes R+1.
C25_AttemptsBounded ==
    IsSuite =>
        \A t \in 1..testIdx :
            LET n == Len(AttemptEvents(t)) IN
            /\ n <= input.retries + 1
            /\ \A j \in 1..n : AttemptEvents(t)[j].a = j - 1
            /\ (t <= Len(TestResults)) => n >= 1
            /\ (t = testIdx /\ InRetryLoop) =>
                /\ attempt <= input.retries + 1
                /\ attempt \in {n - 1, n} \cap Nat

\* A test with retries=2 has been finalized after three attempts: one
\* failed at the trace start, one at a step, one ran its steps through,
\* and a screenshot of the catch block failed too.
C25_Witness ==
    /\ IsSuite
    /\ input.retries = 2
    /\ Len(TestResults) = 1
    /\ Len(AttemptEvents(1)) = 3
    /\ \E j \in 1..3 : ~AttemptEvents(1)[j].inv
    /\ \E j \in 1..Len(hist) : hist[j].ph = "test" /\ ~hist[j].ok
    /\ \E j \in 1..Len(hist) : hist[j].ph = "test" /\ hist[j].ok
    /\ \E j \in 1..Len(hist) : hist[j].ph = "screenshot" /\ hist[j].inv /\ ~hist[j].ok

====
